---- MODULE Spec2Model ----
(***************************************************************************)
(* A model of the rust-crud-api server (src/main.rs): the listener loop,   *)
(* the router, the five handlers, the request parser and the "users"       *)
(* table of the PostgreSQL store the handlers talk to.                     *)
(*                                                                         *)
(* Texts (requests, bodies, names, emails, response contents) are          *)
(* sequences of one-character strings, so that prefix tests, splitting     *)
(* and JSON decoding are computed the way the code computes them.          *)
(***************************************************************************)
EXTENDS Integers, Sequences, FiniteSets, TLC

(***************************************************************************)
(* Bounds of the model.                                                    *)
(***************************************************************************)
\* the serial sequence of the table hands out ids 1..MaxId, then no more
\* inserts are offered
MaxId == 3

(***************************************************************************)
(* Characters and text helpers (the str methods the code calls).           *)
(***************************************************************************)
CR == "\r"
LF == "\n"
QUOTE == "\""
BLANK_LINE == <<CR, LF, CR, LF>>

Digits == <<"0", "1", "2", "3", "4", "5", "6", "7", "8", "9">>

IsDigit(c) == \E d \in 1..10 : Digits[d] = c

DigitVal(c) == (CHOOSE d \in 1..10 : Digits[d] = c) - 1

\* char::is_whitespace on the characters that occur in requests
IsWhitespace(c) == c \in {" ", "\t", CR, LF, "\f"}

\* the whitespace serde_json skips between tokens
IsJsonWs(c) == c \in {" ", "\t", CR, LF}

\* control characters, which a JSON string may not contain unescaped
IsControl(c) == c \in {"\t", CR, LF, "\f"}

I32_MAX == 2147483647

starts_with(s, p) == Len(p) <= Len(s) /\ SubSeq(s, 1, Len(p)) = p

\* the text from position i to the end
Tail_from(s, i) == SubSeq(s, i, Len(s))

\* position of the first occurrence of pat in s at or after i, 0 if none
RECURSIVE find_from(_, _, _)
find_from(s, pat, i) ==
    IF i + Len(pat) - 1 > Len(s) THEN 0
    ELSE IF SubSeq(s, i, i + Len(pat) - 1) = pat THEN i
    ELSE find_from(s, pat, i + 1)

\* str::split(pat): the pieces between the non-overlapping occurrences of
\* pat, found left to right, empty pieces included
RECURSIVE split_from(_, _, _)
\* j: where pat occurs next at or after i, 0 if nowhere
split_at(s, pat, i, j) ==
    IF j = 0 THEN << Tail_from(s, i) >>
    ELSE << SubSeq(s, i, j - 1) >> \o split_from(s, pat, j + Len(pat))

split_from(s, pat, i) == split_at(s, pat, i, find_from(s, pat, i))

split(s, pat) == split_from(s, pat, 1)

\* Iterator::nth(n).unwrap_or_default() on the pieces (n counts from 0)
nth_or_default(pieces, n) == IF n + 1 <= Len(pieces) THEN pieces[n + 1] ELSE << >>

\* Iterator::last().unwrap_or_default() on the pieces
last_or_default(pieces) == IF Len(pieces) > 0 THEN pieces[Len(pieces)] ELSE << >>

\* first position at or after i whose character is not whitespace
RECURSIVE skip_whitespace(_, _)
skip_whitespace(s, i) ==
    IF i > Len(s) THEN i
    ELSE IF IsWhitespace(s[i]) THEN skip_whitespace(s, i + 1)
    ELSE i

\* first position at or after i whose character is whitespace
RECURSIVE skip_word(_, _)
skip_word(s, i) ==
    IF i > Len(s) THEN i
    ELSE IF IsWhitespace(s[i]) THEN i
    ELSE skip_word(s, i + 1)

\* the word that starts at b, if there is one
word_from(s, b) == IF b > Len(s) THEN << >> ELSE SubSeq(s, b, skip_word(s, b) - 1)

\* str::split_whitespace().next().unwrap_or_default()
first_word(s) == word_from(s, skip_whitespace(s, 1))

\* the decimal value of the digits of s from position i on, accumulated
\* with overflow checks as i32's from_str does; -1 for a failure
RECURSIVE parse_digits(_, _, _)
parse_digits(s, i, acc) ==
    IF i > Len(s) THEN acc
    ELSE IF ~IsDigit(s[i]) THEN -1
    ELSE IF acc > (I32_MAX - DigitVal(s[i])) \div 10 THEN -1
    ELSE parse_digits(s, i + 1, acc * 10 + DigitVal(s[i]))

\* the i32 of a sign and a magnitude, -1 being the failure of parse_digits
signed_i32(negative, mag) ==
    IF mag < 0 THEN [ok |-> FALSE, v |-> 0]
    ELSE [ok |-> TRUE, v |-> IF negative THEN 0 - mag ELSE mag]

\* str::parse::<i32>(): an optional sign and at least one digit, in range
\* (the requests of the model carry no value below -I32_MAX)
parse_i32(s) ==
    IF Len(s) = 0 THEN signed_i32(FALSE, -1)
    ELSE IF s[1] \in {"+", "-"}
    THEN signed_i32(s[1] = "-", IF Len(s) = 1 THEN -1 ELSE parse_digits(s, 2, 0))
    ELSE signed_i32(FALSE, parse_digits(s, 1, 0))

\* the decimal text of a natural number (Display for i32)
RECURSIVE to_decimal(_)
to_decimal(n) ==
    IF n < 10 THEN << Digits[n + 1] >>
    ELSE to_decimal(n \div 10) \o << Digits[(n % 10) + 1] >>

(***************************************************************************)
(* The data model and its JSON wire form (User, serde_json).               *)
(***************************************************************************)
\* Option<i32>
None == [some |-> FALSE, v |-> 0]

Some(n) == [some |-> TRUE, v |-> n]

\* struct User
User(id, name, email) == [id |-> id, name |-> name, email |-> email]

NAME == <<"n", "a", "m", "e">>
EMAIL == <<"e", "m", "a", "i", "l">>
ID == <<"i", "d">>
NULL == <<"n", "u", "l", "l">>

JsonFail == [ok |-> FALSE, t |-> "bad", s |-> << >>, n |-> 0, next |-> 0]

\* first position at or after i whose character is not JSON whitespace
RECURSIVE json_skip_ws(_, _)
json_skip_ws(s, i) ==
    IF i > Len(s) THEN i
    ELSE IF IsJsonWs(s[i]) THEN json_skip_ws(s, i + 1)
    ELSE i

\* position of the quote that closes the string whose content starts at i,
\* 0 if the string is not closed or holds a control character (escape
\* sequences do not occur in the requests of the model)
RECURSIVE json_string_end(_, _)
json_string_end(s, i) ==
    IF i > Len(s) THEN 0
    ELSE IF s[i] = QUOTE THEN i
    ELSE IF IsControl(s[i]) \/ s[i] = "\\" THEN 0
    ELSE json_string_end(s, i + 1)

\* the string token that opens at i and closes at e (0: it does not close)
json_string_token(s, i, e) ==
    IF e = 0 THEN JsonFail
    ELSE [ok |-> TRUE, t |-> "str", s |-> SubSeq(s, i + 1, e - 1), n |-> 0, next |-> e + 1]

json_string(s, i) ==
    IF i > Len(s) \/ s[i] # QUOTE THEN JsonFail
    ELSE json_string_token(s, i, json_string_end(s, i + 1))

\* first position at or after i whose character is not a digit
RECURSIVE skip_digits(_, _)
skip_digits(s, i) ==
    IF i > Len(s) THEN i
    ELSE IF IsDigit(s[i]) THEN skip_digits(s, i + 1)
    ELSE i

\* the integer token whose digits are s[b..e-1], negative if neg
json_number_token(s, neg, b, e, mag) ==
    IF mag < 0 THEN JsonFail
    ELSE IF e - b > 1 /\ s[b] = "0" THEN JsonFail
    ELSE IF e <= Len(s) /\ s[e] \in {".", "e", "E"} THEN JsonFail
    ELSE [ok |-> TRUE, t |-> "int", s |-> << >>,
          n |-> IF neg THEN 0 - mag ELSE mag, next |-> e]

json_digits(s, neg, b, e) ==
    json_number_token(s, neg, b, e,
                      IF e = b THEN -1 ELSE parse_digits(SubSeq(s, b, e - 1), 1, 0))

\* a JSON integer read into an i32: an optional minus, digits without a
\* leading zero, no fraction or exponent, in range
json_number(s, i) ==
    IF s[i] = "-" THEN json_digits(s, TRUE, i + 1, skip_digits(s, i + 1))
    ELSE json_digits(s, FALSE, i, skip_digits(s, i))

\* a JSON value: a string, an integer or null (the requests of the model
\* hold no other shape of value)
json_value(s, i) ==
    IF i > Len(s) THEN JsonFail
    ELSE IF s[i] = QUOTE THEN json_string(s, i)
    ELSE IF IsDigit(s[i]) \/ s[i] = "-" THEN json_number(s, i)
    ELSE IF starts_with(Tail_from(s, i), NULL)
         THEN [ok |-> TRUE, t |-> "null", s |-> << >>, n |-> 0, next |-> i + 4]
    ELSE JsonFail

MembersFail == [ok |-> FALSE, fields |-> << >>, next |-> 0]

\* the members of an object from the key at position i up to the closing
\* brace: [ok, fields, next], fields a sequence of [key, val]
RECURSIVE json_members(_, _, _)
\* after a member: a closing brace ends the object, a comma brings another
\* member
json_member_end(s, d, fields) ==
    IF d > Len(s) THEN MembersFail
    ELSE IF s[d] = "}" THEN [ok |-> TRUE, fields |-> fields, next |-> d + 1]
    ELSE IF s[d] = "," THEN json_members(s, json_skip_ws(s, d + 1), fields)
    ELSE MembersFail

json_member_value(s, k, v, acc) ==
    IF ~v.ok THEN MembersFail
    ELSE json_member_end(s, json_skip_ws(s, v.next), Append(acc, [key |-> k.s, val |-> v]))

json_member_colon(s, k, c, acc) ==
    IF c > Len(s) \/ s[c] # ":" THEN MembersFail
    ELSE json_member_value(s, k, json_value(s, json_skip_ws(s, c + 1)), acc)

json_member_key(s, k, acc) ==
    IF ~k.ok THEN MembersFail
    ELSE json_member_colon(s, k, json_skip_ws(s, k.next), acc)

json_members(s, i, acc) == json_member_key(s, json_string(s, i), acc)

ObjectFail == [ok |-> FALSE, fields |-> << >>]

\* m: the members read; nothing but whitespace may follow them
json_object_end(s, m) ==
    IF ~m.ok THEN ObjectFail
    ELSE IF json_skip_ws(s, m.next) <= Len(s) THEN ObjectFail
    ELSE [ok |-> TRUE, fields |-> m.fields]

\* f: the position of the first token after the opening brace
json_object_body(s, f) ==
    IF f <= Len(s) /\ s[f] = "}"
    THEN json_object_end(s, [ok |-> TRUE, fields |-> << >>, next |-> f + 1])
    ELSE json_object_end(s, json_members(s, f, << >>))

\* b: the position of the first token of the text
json_object_start(s, b) ==
    IF b > Len(s) \/ s[b] # "{" THEN ObjectFail
    ELSE json_object_body(s, json_skip_ws(s, b + 1))

\* a whole text as one JSON object, nothing but whitespace around it
json_object(s) == json_object_start(s, json_skip_ws(s, 1))

DecodeErr == [ok |-> FALSE, user |-> User(None, << >>, << >>)]

\* the positions of the members of a name
members_named(fields, key) == {i \in 1..Len(fields) : fields[i].key = key}

\* the value of the member of a name (there is one)
member_named(fields, key) == fields[CHOOSE i \in 1..Len(fields) : fields[i].key = key].val

\* the id of a User from the object's members
user_id(fields) ==
    IF members_named(fields, ID) = {} THEN None
    ELSE IF member_named(fields, ID).t = "int" THEN Some(member_named(fields, ID).n)
    ELSE None

\* the derived Deserialize of User on the members of an object: name and
\* email must each occur once and be strings; id may be absent, null or an
\* integer; a member of another name is skipped
user_of_object(o) ==
    IF ~o.ok THEN DecodeErr
    ELSE IF Cardinality(members_named(o.fields, NAME)) # 1 THEN DecodeErr
    ELSE IF Cardinality(members_named(o.fields, EMAIL)) # 1 THEN DecodeErr
    ELSE IF Cardinality(members_named(o.fields, ID)) > 1 THEN DecodeErr
    ELSE IF member_named(o.fields, NAME).t # "str" THEN DecodeErr
    ELSE IF member_named(o.fields, EMAIL).t # "str" THEN DecodeErr
    ELSE IF members_named(o.fields, ID) # {} /\ member_named(o.fields, ID).t \notin {"int", "null"}
    THEN DecodeErr
    ELSE [ok |-> TRUE,
          user |-> User(user_id(o.fields), member_named(o.fields, NAME).s,
                        member_named(o.fields, EMAIL).s)]

\* serde_json::from_str::<User>
from_str(s) == user_of_object(json_object(s))

\* a text between double quotes
Quoted(s) == <<QUOTE>> \o s \o <<QUOTE>>

\* serde_json::to_string(&User): the fields in declaration order, a None id
\* as null
to_string(u) ==
    <<"{">> \o Quoted(ID) \o <<":">> \o (IF u.id.some THEN to_decimal(u.id.v) ELSE NULL)
    \o <<",">> \o Quoted(NAME) \o <<":">> \o Quoted(u.name)
    \o <<",">> \o Quoted(EMAIL) \o <<":">> \o Quoted(u.email) \o <<"}">>

(***************************************************************************)
(* Constants of the server.                                                *)
(***************************************************************************)
OK_RESPONSE == "HTTP/1.1 200 OK\r\nContent-Type: application/json\r\n\r\n"
NOT_FOUND == "HTTP/1.1 404 NOT FOUND\r\n\r\n"
INTERNAL_ERROR == "HTTP/1.1 500 INTERNAL ERROR\r\n\r\n"

\* the size of the read buffer of handle_client
BUFFER_SIZE == 4096

\* the prefixes the router tests, in its order
POST_USERS ==
    <<"P", "O", "S", "T", " ", "/", "u", "s", "e", "r", "s">>
GET_USERS_ID ==
    <<"G", "E", "T", " ", "/", "u", "s", "e", "r", "s", "/">>
GET_USERS ==
    <<"G", "E", "T", " ", "/", "u", "s", "e", "r", "s">>
PUT_USERS_ID ==
    <<"P", "U", "T", " ", "/", "u", "s", "e", "r", "s", "/">>
DELETE_USERS_ID ==
    <<"D", "E", "L", "E", "T", "E", " ", "/", "u", "s", "e", "r", "s", "/">>

\* the fixed response contents
MSG_404 ==
    <<"4", "0", "4", " ", "n", "o", "t", " ", "f", "o", "u", "n", "d">>
MSG_INTERNAL_ERROR ==
    <<"I", "n", "t", "e", "r", "n", "a", "l", " ", "e", "r", "r", "o", "r">>
MSG_USER_NOT_FOUND ==
    <<"U", "s", "e", "r", " ", "n", "o", "t", " ", "f", "o", "u", "n", "d">>
MSG_USER_UPDATED ==
    <<"U", "s", "e", "r", " ", "u", "p", "d", "a", "t", "e", "d">>
MSG_USER_DELETED ==
    <<"U", "s", "e", "r", " ", "d", "e", "l", "e", "t", "e", "d">>

(***************************************************************************)
(* The request parser.                                                     *)
(***************************************************************************)
\* get_id: the third piece of the request split on '/', up to its first
\* whitespace
get_id(request) == first_word(nth_or_default(split(request, <<"/">>), 2))

\* the text get_user_request_body hands to the JSON decoder
request_body(request) == last_or_default(split(request, BLANK_LINE))

\* get_user_request_body: Ok(user) or Err
get_user_request_body(request) == from_str(request_body(request))

(***************************************************************************)
(* The store: the table users(id serial primary key, name text not null,   *)
(* email text not null unique) and the statements the handlers run on it.  *)
(* A table is a set of rows [id, name, email]; serial is the next value of *)
(* the sequence behind the id column.                                      *)
(***************************************************************************)
Row(id, name, email) == [id |-> id, name |-> name, email |-> email]

\* the User a handler builds from a row (row.get(0), row.get(1), row.get(2))
user_of_row(row) == User(Some(row.id), row.name, row.email)

\* sql_insert on a table whose email column lacks the UNIQUE constraint
sql_insert_not_unique(table, serial, name, email) ==
    [ok |-> TRUE, row |-> Row(serial, name, email),
     table |-> table \cup {Row(serial, name, email)}, serial |-> serial + 1]

\* INSERT INTO users (name, email) VALUES ($1, $2) RETURNING id, name, email
\* the sequence value is consumed also when the unique constraint on email
\* rejects the row
sql_insert(table, serial, name, email) ==
    LET row == Row(serial, name, email)
        unique == \A r \in table : r.email # email /\ r.id # serial
    IN  [ok |-> unique, row |-> row,
         table |-> IF unique THEN table \cup {row} ELSE table,
         serial |-> serial + 1]

\* SELECT id, name, email FROM users WHERE id = $1
sql_select_by_id(table, id) == {r \in table : r.id = id}

\* sql_update on a table whose email column lacks the UNIQUE constraint
sql_update_not_unique(table, id, name, email) ==
    [ok |-> TRUE, n |-> Cardinality({r \in table : r.id = id}),
     table |-> {IF r.id = id THEN Row(r.id, name, email) ELSE r : r \in table}]

\* UPDATE users SET name = $1, email = $2 WHERE id = $3: the number of rows
\* affected, or an error when the new email is held by another row
sql_update(table, id, name, email) ==
    LET hit == {r \in table : r.id = id}
        unique == \A r \in table \ hit : r.email # email
    IN  IF hit = {} THEN [ok |-> TRUE, n |-> 0, table |-> table]
        ELSE IF ~unique THEN [ok |-> FALSE, n |-> 0, table |-> table]
        ELSE [ok |-> TRUE, n |-> Cardinality(hit),
              table |-> (table \ hit) \cup {Row(r.id, name, email) : r \in hit}]

\* sql_delete without its WHERE clause
sql_delete_every_row(table, id) ==
    [ok |-> TRUE, n |-> Cardinality(table), table |-> {}]

\* DELETE FROM users WHERE id = $1: the number of rows affected
sql_delete(table, id) ==
    LET hit == {r \in table : r.id = id}
    IN  [ok |-> TRUE, n |-> Cardinality(hit), table |-> table \ hit]

\* what a connection to the store can do to one request: work, fail to
\* open (Client::connect is Err), or fail while running the statement
Links == {"ok", "connect_err", "query_err"}

(***************************************************************************)
(* The handlers.  Each yields the (status_line, content) pair of the code  *)
(* together with the table and the sequence it leaves and the statement it *)
(* ran ("none" when it ran none).                                          *)
(***************************************************************************)
Outcome(status_line, content, table, serial, sql) ==
    [status_line |-> status_line, content |-> content,
     table |-> table, serial |-> serial, sql |-> sql]

\* the match of handle_post_request on what query_one returned
post_result(ins) ==
    IF ins.ok
    THEN Outcome(OK_RESPONSE, to_string(user_of_row(ins.row)), ins.table, ins.serial, "insert")
    ELSE Outcome(INTERNAL_ERROR, MSG_INTERNAL_ERROR, ins.table, ins.serial, "insert")

\* handle_post_request once the body is decoded: the match on (body, client)
\* and the INSERT
post_user(body, link, table, serial) ==
    IF ~(body.ok /\ link # "connect_err")
    THEN Outcome(INTERNAL_ERROR, MSG_INTERNAL_ERROR, table, serial, "none")
    ELSE IF link = "query_err"
    THEN Outcome(INTERNAL_ERROR, MSG_INTERNAL_ERROR, table, serial, "insert")
    ELSE post_result(sql_insert(table, serial, body.user.name, body.user.email))

\* handle_post_request
handle_post_request(request, link, table, serial) ==
    post_user(get_user_request_body(request), link, table, serial)

\* the match of handle_get_request on the rows query_opt found
get_result(rows, table, serial) ==
    IF rows # {}
    THEN Outcome(OK_RESPONSE, to_string(user_of_row(CHOOSE r \in rows : TRUE)),
                 table, serial, "select")
    ELSE Outcome(NOT_FOUND, MSG_USER_NOT_FOUND, table, serial, "select")

\* handle_get_request once the id is parsed: the match on (id, client) and
\* the SELECT
get_user(id, link, table, serial) ==
    IF ~(id.ok /\ link # "connect_err")
    THEN Outcome(INTERNAL_ERROR, MSG_INTERNAL_ERROR, table, serial, "none")
    ELSE IF link = "query_err"
    THEN Outcome(INTERNAL_ERROR, MSG_INTERNAL_ERROR, table, serial, "select")
    ELSE get_result(sql_select_by_id(table, id.v), table, serial)

\* handle_get_request
handle_get_request(request, link, table, serial) ==
    get_user(parse_i32(get_id(request)), link, table, serial)

\* the texts of a sequence of texts, sep between them
RECURSIVE join(_, _)
join(texts, sep) ==
    IF Len(texts) = 0 THEN << >>
    ELSE IF Len(texts) = 1 THEN texts[1]
    ELSE texts[1] \o sep \o join(Tail(texts), sep)

\* the orders in which SELECT without ORDER BY can return the rows
RowOrders(table) ==
    {o \in [1..Cardinality(table) -> table] :
        \A i, j \in 1..Cardinality(table) : i # j => o[i] # o[j]}

\* handle_get_all_request, rows being the rows in the order the store
\* returned them
handle_get_all_request(request, link, table, serial, rows) ==
    IF link = "connect_err"
    THEN Outcome(INTERNAL_ERROR, MSG_INTERNAL_ERROR, table, serial, "none")
    ELSE IF link = "query_err"
    THEN Outcome(INTERNAL_ERROR, MSG_INTERNAL_ERROR, table, serial, "select_all")
    ELSE Outcome(OK_RESPONSE,
                 <<"[">> \o join([i \in 1..Len(rows) |-> to_string(user_of_row(rows[i]))], <<",">>)
                 \o <<"]">>,
                 table, serial, "select_all")

\* the match of handle_put_request on what execute returned
put_result(upd, table, serial) ==
    IF ~upd.ok THEN Outcome(INTERNAL_ERROR, MSG_INTERNAL_ERROR, table, serial, "update")
    ELSE IF upd.n > 0 THEN Outcome(OK_RESPONSE, MSG_USER_UPDATED, upd.table, serial, "update")
    ELSE Outcome(NOT_FOUND, MSG_USER_NOT_FOUND, upd.table, serial, "update")

\* handle_put_request once id and body are parsed: the match on
\* (id, body, client) and the UPDATE
put_user(id, body, link, table, serial) ==
    IF ~(id.ok /\ body.ok /\ link # "connect_err")
    THEN Outcome(INTERNAL_ERROR, MSG_INTERNAL_ERROR, table, serial, "none")
    ELSE IF link = "query_err"
    THEN Outcome(INTERNAL_ERROR, MSG_INTERNAL_ERROR, table, serial, "update")
    ELSE put_result(sql_update(table, id.v, body.user.name, body.user.email), table, serial)

\* handle_put_request
handle_put_request(request, link, table, serial) ==
    put_user(parse_i32(get_id(request)), get_user_request_body(request), link, table, serial)

\* delete_result without the Ok(0) arm
delete_result_always_ok(del, serial) ==
    Outcome(OK_RESPONSE, MSG_USER_DELETED, del.table, serial, "delete")

\* the match of handle_delete_request on what execute returned
delete_result(del, serial) ==
    IF del.n = 0 THEN Outcome(NOT_FOUND, MSG_USER_NOT_FOUND, del.table, serial, "delete")
    ELSE Outcome(OK_RESPONSE, MSG_USER_DELETED, del.table, serial, "delete")

\* handle_delete_request once the id is parsed: the match on (id, client)
\* and the DELETE
delete_user(id, link, table, serial) ==
    IF ~(id.ok /\ link # "connect_err")
    THEN Outcome(INTERNAL_ERROR, MSG_INTERNAL_ERROR, table, serial, "none")
    ELSE IF link = "query_err"
    THEN Outcome(INTERNAL_ERROR, MSG_INTERNAL_ERROR, table, serial, "delete")
    ELSE delete_result(sql_delete(table, id.v), serial)

\* handle_delete_request
handle_delete_request(request, link, table, serial) ==
    delete_user(parse_i32(get_id(request)), link, table, serial)

(***************************************************************************)
(* The router: the match of handle_client, first arm that applies.         *)
(***************************************************************************)
\* route with the last prefix lacking its trailing slash
route_delete_without_slash(request) ==
    IF starts_with(request, POST_USERS) THEN "handle_post_request"
    ELSE IF starts_with(request, GET_USERS_ID) THEN "handle_get_request"
    ELSE IF starts_with(request, GET_USERS) THEN "handle_get_all_request"
    ELSE IF starts_with(request, PUT_USERS_ID) THEN "handle_put_request"
    ELSE IF starts_with(request, SubSeq(DELETE_USERS_ID, 1, Len(DELETE_USERS_ID) - 1))
    THEN "handle_delete_request"
    ELSE "none"

route(request) ==
    IF starts_with(request, POST_USERS) THEN "handle_post_request"
    ELSE IF starts_with(request, GET_USERS_ID) THEN "handle_get_request"
    ELSE IF starts_with(request, GET_USERS) THEN "handle_get_all_request"
    ELSE IF starts_with(request, PUT_USERS_ID) THEN "handle_put_request"
    ELSE IF starts_with(request, DELETE_USERS_ID) THEN "handle_delete_request"
    ELSE "none"

(***************************************************************************)
(* The requests clients send: the inputs of the model.                     *)
(***************************************************************************)
HTTP_VERSION == <<"H", "T", "T", "P", "/", "1", ".", "1">>

\* a request without header lines: request line, blank line, body
RequestText(start, body) == start \o <<" ">> \o HTTP_VERSION \o BLANK_LINE \o body

Names == {<<"a">>, <<"b">>}

Emails == {<<"x">>, <<"y">>}

Member(key, value) == Quoted(key) \o <<":">> \o value

\* {"name":"<name>","email":"<email>"}
UserBody(name, email) ==
    <<"{">> \o Member(NAME, Quoted(name)) \o <<",">> \o Member(EMAIL, Quoted(email)) \o <<"}">>

\* the same object with a blank line between its two members, which JSON
\* allows as whitespace
SpacedUserBody(name, email) ==
    <<"{">> \o Member(NAME, Quoted(name)) \o <<",">> \o BLANK_LINE
    \o Member(EMAIL, Quoted(email)) \o <<"}">>

\* a body that is no JSON, although its last paragraph is
PrefixedUserBody(name, email) == <<"o", "o", "p", "s">> \o BLANK_LINE \o UserBody(name, email)

ValidBodies == {UserBody(n, e) : n \in Names, e \in Emails}

InvalidBodies == {<< >>, <<"o", "o", "p", "s">>, <<"{">> \o Member(NAME, Quoted(<<"a">>)) \o <<"}">>}

ParagraphBodies == {SpacedUserBody(<<"b">>, <<"y">>), PrefixedUserBody(<<"a">>, <<"x">>)}

Bodies == ValidBodies \cup InvalidBodies \cup ParagraphBodies

\* the id tokens of the paths: the ids the sequence can hand out, an id it
\* never hands out, no token, a number too large for an i32
IdTokens ==
    {to_decimal(k) : k \in 1..MaxId} \cup {<<"-", "1">>, << >>, <<"2", "1", "4", "7", "4", "8", "3", "6", "4", "8">>}

\* requests that start with none of the router's prefixes
UnroutedRequests ==
    {RequestText(<<"G", "E", "T", " ", "/">>, << >>),
     RequestText(<<"P", "A", "T", "C", "H", " ", "/", "u", "s", "e", "r", "s", "/", "1">>, << >>),
     RequestText(<<"D", "E", "L", "E", "T", "E", " ", "/", "u", "s", "e", "r", "s">>, << >>),
     RequestText(<<"P", "U", "T", " ", "/", "u", "s", "e", "r", "s">>, UserBody(<<"a">>, <<"x">>)),
     RequestText(<<"P", "O", "S", "T", " ", "/", "u", "s", "e", "r">>, UserBody(<<"a">>, <<"x">>))}

\* requests for no route of the interface that start with a router prefix
PrefixRequests ==
    {RequestText(<<"P", "O", "S", "T", " ", "/", "u", "s", "e", "r", "s", "/", "1">>, UserBody(<<"b">>, <<"y">>)),
     RequestText(<<"G", "E", "T", " ", "/", "u", "s", "e", "r", "s", "x">>, << >>),
     RequestText(<<"G", "E", "T", " ", "/", "u", "s", "e", "r", "s", "/", "1", "/", "x">>, << >>)}

Requests ==
    {RequestText(POST_USERS, b) : b \in Bodies}
    \cup {RequestText(PUT_USERS_ID \o to_decimal(k), b) : k \in 1..MaxId, b \in Bodies}
    \cup {RequestText(PUT_USERS_ID \o t, b) : t \in {<< >>, <<"2", "1", "4", "7", "4", "8", "3", "6", "4", "8">>}, b \in {UserBody(<<"a">>, <<"x">>), <<"o", "o", "p", "s">>}}
    \cup {RequestText(GET_USERS, << >>)}
    \cup {RequestText(GET_USERS_ID \o t, << >>) : t \in IdTokens}
    \cup {RequestText(DELETE_USERS_ID \o t, << >>) : t \in IdTokens}
    \cup UnroutedRequests \cup PrefixRequests

(***************************************************************************)
(* The listener loop: main's for loop over listener.incoming() and         *)
(* handle_client, one step at a time.                                      *)
(***************************************************************************)
VARIABLES
    users,      \* the rows of the table
    serial,     \* the next value of the sequence of the id column
    pc,         \* where the loop is: "accept", "read", "dispatch", "write", "close"
    open,       \* the number of accepted streams not yet dropped
    request,    \* the text read from the stream
    response,   \* the (status_line, content) pair of the match
    ran,        \* the handler the match called, the statement it ran, the store's link
    written,    \* the number of responses written to the stream
    log,        \* the line printed to stderr for this connection, "" if none
    prev        \* the exchange of the connection before this one, when it was a
                \* write answered 200; NoExchange otherwise

vars == <<users, serial, pc, open, request, response, ran, written, log, prev>>

NoResponse == [status_line |-> "", content |-> << >>]

Idle == [handler |-> "idle", sql |-> "none", link |-> "none"]

NoExchange == [request |-> << >>, status_line |-> "", content |-> << >>]

\* an exchange in which a handler that writes to the table answered 200
IsWrite(r, resp) ==
    /\ r.handler \in {"handle_post_request", "handle_put_request", "handle_delete_request"}
    /\ resp.status_line = OK_RESPONSE

\* set_database succeeded and the port is bound: the table exists and is
\* empty, the loop waits for its first connection
Init ==
    /\ users = {}
    /\ serial = 1
    /\ pc = "accept"
    /\ open = 0
    /\ request = << >>
    /\ response = NoResponse
    /\ ran = Idle
    /\ written = 0
    /\ log = ""
    /\ prev = NoExchange

\* listener.incoming() yields Ok(stream): handle_client is called
Accept ==
    /\ pc = "accept"
    /\ pc' = "read"
    /\ open' = open + 1
    /\ log' = ""
    /\ UNCHANGED <<users, serial, request, response, ran, written, prev>>

\* listener.incoming() yields Err: the error is printed, the loop goes on
AcceptErr ==
    /\ pc = "accept"
    /\ log' = "Unable to accept connection"
    /\ UNCHANGED <<users, serial, pc, open, request, response, ran, written, prev>>

\* stream.read is Ok(size): the bytes read, at most the buffer, are the request
Read ==
    /\ pc = "read"
    /\ \E text \in Requests :
        /\ route(text) = "handle_post_request" => serial <= MaxId
        /\ request' = SubSeq(text, 1, IF Len(text) < BUFFER_SIZE THEN Len(text) ELSE BUFFER_SIZE)
    /\ pc' = "dispatch"
    /\ UNCHANGED <<users, serial, open, response, ran, written, log, prev>>

\* ReadErr going on to the match with an empty request instead of returning
ReadErr_then_dispatch ==
    /\ pc = "read"
    /\ log' = "Unable to read stream"
    /\ pc' = "dispatch"
    /\ UNCHANGED <<users, serial, open, request, response, ran, written, prev>>

\* stream.read is Err: the error is printed, handle_client returns
ReadErr ==
    /\ pc = "read"
    /\ log' = "Unable to read stream"
    /\ pc' = "close"
    /\ UNCHANGED <<users, serial, open, request, response, ran, written, prev>>

\* the state after the match of handle_client called a handler
Handled(handler, link, out) ==
    /\ users' = out.table
    /\ serial' = out.serial
    /\ response' = [status_line |-> out.status_line, content |-> out.content]
    /\ ran' = [handler |-> handler, sql |-> out.sql, link |-> link]
    /\ pc' = "write"
    /\ UNCHANGED <<open, request, written, log, prev>>

DispatchPost ==
    /\ pc = "dispatch"
    /\ route(request) = "handle_post_request"
    /\ \E link \in Links :
        Handled("handle_post_request", link, handle_post_request(request, link, users, serial))

DispatchGet ==
    /\ pc = "dispatch"
    /\ route(request) = "handle_get_request"
    /\ \E link \in Links :
        Handled("handle_get_request", link, handle_get_request(request, link, users, serial))

DispatchGetAll ==
    /\ pc = "dispatch"
    /\ route(request) = "handle_get_all_request"
    /\ \E link \in Links, rows \in RowOrders(users) :
        Handled("handle_get_all_request", link,
                handle_get_all_request(request, link, users, serial, rows))

DispatchPut ==
    /\ pc = "dispatch"
    /\ route(request) = "handle_put_request"
    /\ \E link \in Links :
        Handled("handle_put_request", link, handle_put_request(request, link, users, serial))

DispatchDelete ==
    /\ pc = "dispatch"
    /\ route(request) = "handle_delete_request"
    /\ \E link \in Links :
        Handled("handle_delete_request", link, handle_delete_request(request, link, users, serial))

\* the last arm of the match: no handler is called
DispatchNotFound ==
    /\ pc = "dispatch"
    /\ route(request) = "none"
    /\ Handled("none", "none", Outcome(NOT_FOUND, MSG_404, users, serial, "none"))

\* stream.write_all is Ok
Write ==
    /\ pc = "write"
    /\ written' = written + 1
    /\ pc' = "close"
    /\ UNCHANGED <<users, serial, open, request, response, ran, log, prev>>

\* stream.write_all is Err: the error is printed
WriteErr ==
    /\ pc = "write"
    /\ log' = "Unable to write response"
    /\ pc' = "close"
    /\ UNCHANGED <<users, serial, open, request, response, ran, written, prev>>

\* handle_client returns: its stream, buffer and request are dropped
Close ==
    /\ pc = "close"
    /\ open' = open - 1
    /\ pc' = "accept"
    /\ request' = << >>
    /\ response' = NoResponse
    /\ ran' = Idle
    /\ written' = 0
    /\ prev' = IF IsWrite(ran, response)
               THEN [request |-> request, status_line |-> response.status_line,
                     content |-> response.content]
               ELSE NoExchange
    /\ UNCHANGED <<users, serial, log>>

Next ==
    \/ Accept
    \/ AcceptErr
    \/ Read
    \/ ReadErr
    \/ DispatchPost
    \/ DispatchGet
    \/ DispatchGetAll
    \/ DispatchPut
    \/ DispatchDelete
    \/ DispatchNotFound
    \/ Write
    \/ WriteErr
    \/ Close

Spec == Init /\ [][Next]_vars

\* the thread does not stop inside handle_client: once the function is at
\* its end it returns (waiting happens only in accept and in read)
FairSpec == Spec /\ WF_vars(Close)

(***************************************************************************)
(* The vocabulary of the properties: requests as a client writes them and  *)
(* what HTTP says of them, stated without the server's own parser.         *)
(***************************************************************************)
\* the body of a request: the text after its first blank line
http_body_from(text, j) == IF j = 0 THEN << >> ELSE Tail_from(text, j + Len(BLANK_LINE))

http_body(text) == http_body_from(text, find_from(text, BLANK_LINE, 1))

\* the user a request's body states, when the body is JSON for a user
stated_user(text) == from_str(http_body(text))

\* the request line up to the HTTP version
LineStart(text) == SubSeq(text, 1, find_from(text, <<" ">> \o HTTP_VERSION, 1) - 1)

IsPostUsers(text) == LineStart(text) = POST_USERS

IsGetUsers(text) == LineStart(text) = GET_USERS

\* /users/{id}: one more path segment, not empty
HasIdSegment(text, prefix) ==
    /\ starts_with(LineStart(text), prefix)
    /\ Len(LineStart(text)) > Len(prefix)
    /\ \A i \in Len(prefix) + 1..Len(LineStart(text)) : LineStart(text)[i] # "/"

\* the request is for one of the five routes of the interface
IsInterfaceRoute(text) ==
    \/ IsPostUsers(text)
    \/ IsGetUsers(text)
    \/ HasIdSegment(text, GET_USERS_ID)
    \/ HasIdSegment(text, PUT_USERS_ID)
    \/ HasIdSegment(text, DELETE_USERS_ID)

\* the request starts with one of the prefixes of the router
HasRouterPrefix(text) ==
    \E prefix \in {POST_USERS, GET_USERS_ID, GET_USERS, PUT_USERS_ID, DELETE_USERS_ID} :
        starts_with(text, prefix)

GetRequest(id) == RequestText(GET_USERS_ID \o to_decimal(id), << >>)

DeleteRequest(token) == RequestText(DELETE_USERS_ID \o token, << >>)

IsPutUsers(text, id) == LineStart(text) = PUT_USERS_ID \o to_decimal(id)

\* the decimal text of an integer
IntText(n) == IF n < 0 THEN <<"-">> \o to_decimal(0 - n) ELSE to_decimal(n)

\* a text that writes an integer in decimal
IsIntegerText(t) ==
    /\ Len(t) > 0
    /\ \A i \in 1..Len(t) : IsDigit(t[i]) \/ (i = 1 /\ t[i] = "-" /\ Len(t) > 1)

PersistedIds == {r.id : r \in users}

\* the handler's match has produced the response of this connection
Answered == pc \in {"write", "close"} /\ ran.handler # "idle"

Answer(status_line, content) == [status_line |-> status_line, content |-> content]

(***************************************************************************)
(* C1                                                                      *)
(***************************************************************************)
\* C1: in every state reachable from the empty table by requests of any
\* kind, successful or failed, no two rows share an id and no two rows
\* share an email.
C1_UniqueIdAndEmail ==
    \A r1, r2 \in users : (r1.id = r2.id \/ r1.email = r2.email) => r1 = r2

\* two rows are persisted and an update that would have given one of them
\* the other's email has just been rejected
C1_Witness ==
    /\ Cardinality(users) >= 2
    /\ pc = "write"
    /\ ran = [handler |-> "handle_put_request", sql |-> "update", link |-> "ok"]
    /\ response = Answer(INTERNAL_ERROR, MSG_INTERNAL_ERROR)

(***************************************************************************)
(* C2                                                                      *)
(***************************************************************************)
\* the answer to a create: 200 and the JSON of a user with an id, the
\* stated name and email, whose row is the one row added
IsCreated(resp, stated, before, after) ==
    /\ resp.status_line = OK_RESPONSE
    /\ from_str(resp.content).ok
    /\ from_str(resp.content).user.id.some
    /\ from_str(resp.content).user.name = stated.name
    /\ from_str(resp.content).user.email = stated.email
    /\ from_str(resp.content).user.id.v \notin {r.id : r \in before}
    /\ after = before \cup {Row(from_str(resp.content).user.id.v, stated.name, stated.email)}

\* C2: a POST /users whose body is JSON for a user with an email that no
\* row holds is answered 200 with a user that has an id, the id of the row
\* added, and the name and email of the request (the store being
\* reachable); a GET /users/{id} for that id on the next connection is
\* answered 200 with the same id, name and email.
C2_CreateThenGet ==
    /\ [][(/\ pc = "dispatch"
           /\ IsPostUsers(request)
           /\ stated_user(request).ok
           /\ \A r \in users : r.email # stated_user(request).user.email
           /\ ran'.link = "ok")
          => IsCreated(response', stated_user(request).user, users, users')]_vars
    /\ [](/\ prev.status_line = OK_RESPONSE
          /\ IsPostUsers(prev.request)
          /\ from_str(prev.content).ok
          /\ pc = "write"
          /\ ran.link = "ok"
          /\ request = GetRequest(from_str(prev.content).user.id.v)
          => /\ response.status_line = OK_RESPONSE
             /\ from_str(response.content) = from_str(prev.content))

(***************************************************************************)
(* C3                                                                      *)
(***************************************************************************)
\* C3: a PUT /users/{id} whose body is JSON for a user, on a persisted id,
\* the new email held by no other row, is answered 200 "User updated" (the
\* store being reachable); the row of that id holds the new name and email,
\* the ids persisted are the same and every other row is as it was, also
\* when the new values are the old ones; a GET /users/{id} on the next
\* connection returns the new name and email under the same id.
C3_UpdateThenGet ==
    /\ [][\A id \in PersistedIds :
            (/\ pc = "dispatch"
             /\ IsPutUsers(request, id)
             /\ stated_user(request).ok
             /\ \A r \in users : r.email = stated_user(request).user.email => r.id = id
             /\ ran'.link = "ok")
            => /\ response' = Answer(OK_RESPONSE, MSG_USER_UPDATED)
               /\ {r.id : r \in users'} = PersistedIds
               /\ \A r \in users : r.id # id => r \in users'
               /\ Row(id, stated_user(request).user.name, stated_user(request).user.email)
                      \in users']_vars
    /\ [](\A id \in PersistedIds :
            (/\ prev.status_line = OK_RESPONSE
             /\ IsPutUsers(prev.request, id)
             /\ pc = "write"
             /\ ran.link = "ok"
             /\ request = GetRequest(id))
            => /\ response.status_line = OK_RESPONSE
               /\ from_str(response.content).user =
                      User(Some(id), stated_user(prev.request).user.name,
                           stated_user(prev.request).user.email))

(***************************************************************************)
(* C4                                                                      *)
(***************************************************************************)
\* C4: a DELETE /users/{id} on a persisted id is answered 200 "User
\* deleted" and removes that id's row and no other (the store being
\* reachable); the same DELETE on the next connection is answered 404
\* "User not found".
C4_DeleteThenRepeat ==
    /\ [][\A row \in users :
            (/\ pc = "dispatch"
             /\ request = DeleteRequest(to_decimal(row.id))
             /\ ran'.link = "ok")
            => /\ response' = Answer(OK_RESPONSE, MSG_USER_DELETED)
               /\ users' = users \ {row}]_vars
    /\ [](\A id \in 1..MaxId :
            (/\ prev = [request |-> DeleteRequest(to_decimal(id)),
                        status_line |-> OK_RESPONSE, content |-> MSG_USER_DELETED]
             /\ pc = "write"
             /\ ran.link = "ok"
             /\ request = prev.request)
            => response = Answer(NOT_FOUND, MSG_USER_NOT_FOUND))

\* the DELETE that was answered 200 on the connection before has been
\* repeated and answered, another row being persisted all along
C4_Witness ==
    /\ prev.status_line = OK_RESPONSE
    /\ prev.content = MSG_USER_DELETED
    /\ pc = "write"
    /\ ran.link = "ok"
    /\ request = prev.request
    /\ users # {}

(***************************************************************************)
(* C5                                                                      *)
(***************************************************************************)
\* C5, as claimed: a DELETE /users/{id} for an id, any integer, that has no
\* row is answered 404 and never 500 (the store being reachable), and
\* leaves the table as it is.
C5_DeleteAbsentAnyInteger ==
    [][\A token \in IdTokens :
         (/\ pc = "dispatch"
          /\ request = DeleteRequest(token)
          /\ IsIntegerText(token)
          /\ \A r \in users : IntText(r.id) # token
          /\ ran'.link = "ok")
         => /\ response' = Answer(NOT_FOUND, MSG_USER_NOT_FOUND)
            /\ users' = users]_vars

\* C5, amended: a DELETE /users/{id} for an id that is a 32-bit signed
\* integer and has no row is answered 404 and never 500 (the store being
\* reachable), in every state of the table and however often it is
\* repeated, and leaves the table as it is.
C5_DeleteAbsentI32 ==
    [][\A id \in -1..MaxId + 1 :
         (/\ pc = "dispatch"
          /\ request = DeleteRequest(IntText(id))
          /\ id \notin PersistedIds
          /\ ran'.link = "ok")
         => /\ response' = Answer(NOT_FOUND, MSG_USER_NOT_FOUND)
            /\ users' = users]_vars

\* a DELETE for an id that was persisted once and is no more has been
\* answered 404 while another row is persisted
C5_Witness ==
    /\ pc = "write"
    /\ ran = [handler |-> "handle_delete_request", sql |-> "delete", link |-> "ok"]
    /\ \E id \in 1..MaxId : request = DeleteRequest(to_decimal(id)) /\ id < serial
    /\ response = Answer(NOT_FOUND, MSG_USER_NOT_FOUND)
    /\ users # {}

(***************************************************************************)
(* C6                                                                      *)
(***************************************************************************)
\* C6: a POST /users whose email is the email of a persisted user is
\* answered 500 "Internal error", and no row is added or changed by it.
C6_DuplicateEmail ==
    [][(/\ pc = "dispatch"
        /\ IsPostUsers(request)
        /\ stated_user(request).ok
        /\ \E r \in users : r.email = stated_user(request).user.email)
       => /\ response' = Answer(INTERNAL_ERROR, MSG_INTERNAL_ERROR)
          /\ users' = users]_vars

\* the INSERT of a POST whose email a row holds has been rejected by the
\* store
C6_Witness ==
    /\ pc = "write"
    /\ IsPostUsers(request)
    /\ stated_user(request).ok
    /\ \E r \in users : r.email = stated_user(request).user.email
                        /\ r.name # stated_user(request).user.name
    /\ ran = [handler |-> "handle_post_request", sql |-> "insert", link |-> "ok"]
    /\ response = Answer(INTERNAL_ERROR, MSG_INTERNAL_ERROR)

(***************************************************************************)
(* C7                                                                      *)
(***************************************************************************)
\* C7, as claimed: every request whose method and path are not one of the
\* five routes of the interface is answered 404 "404 not found", and no
\* handler and no statement runs for it.
C7_NotARouteIs404 ==
    (Answered /\ ~IsInterfaceRoute(request))
    => /\ response = Answer(NOT_FOUND, MSG_404)
       /\ ran.handler = "none"
       /\ ran.sql = "none"

\* C7, amended: every request that starts with none of the five prefixes
\* the router tests ("POST /users", "GET /users/", "GET /users",
\* "PUT /users/", "DELETE /users/") is answered 404 "404 not found", and no
\* handler and no statement runs for it.
C7_NoPrefixIs404 ==
    (Answered /\ ~HasRouterPrefix(request))
    => /\ response = Answer(NOT_FOUND, MSG_404)
       /\ ran.handler = "none"
       /\ ran.sql = "none"

\* a request with none of the prefixes has been answered while rows are
\* persisted
C7_Witness ==
    /\ pc = "write"
    /\ ~HasRouterPrefix(request)
    /\ response = Answer(NOT_FOUND, MSG_404)
    /\ users # {}

(***************************************************************************)
(* C8                                                                      *)
(***************************************************************************)
\* C8: a POST /users or PUT /users/{id} whose body is not JSON for a user
\* is answered 500 "Internal error", whatever the id of the path and
\* whatever the table holds, and the table is left as it is.
C8_BadBodyIs500 ==
    [][(/\ pc = "dispatch"
        /\ IsPostUsers(request) \/ starts_with(request, PUT_USERS_ID)
        /\ ~stated_user(request).ok)
       => /\ response' = Answer(INTERNAL_ERROR, MSG_INTERNAL_ERROR)
          /\ users' = users]_vars

(***************************************************************************)
(* C9                                                                      *)
(***************************************************************************)
\* C9: for every request text, the body the request parser hands to the
\* JSON decoder is everything after the first blank line of the text, also
\* when the text has more than one blank line.
C9_BodyAfterFirstBlankLine ==
    pc = "dispatch" => request_body(request) = http_body(request)

(***************************************************************************)
(* C10                                                                     *)
(***************************************************************************)
LoopOrder ==
    {<<"accept", "read">>, <<"read", "dispatch">>, <<"read", "close">>,
     <<"dispatch", "write">>, <<"write", "close">>, <<"close", "accept">>}

\* C10: the loop handles connections one at a time in the order accept,
\* read, dispatch, write, close: no connection is accepted while an earlier
\* one is open, at most one response is written per connection, a
\* connection whose read failed is not dispatched, and after a failed read
\* or a failed write the loop closes the connection and comes back to
\* accept.
C10_OneConnectionAtATime ==
    /\ [](open = (IF pc = "accept" THEN 0 ELSE 1))
    /\ [](written <= 1)
    /\ [](written = 1 => pc = "close" /\ ran.handler # "idle")
    /\ [](log = "Unable to read stream" => ran = Idle /\ written = 0 /\ pc \in {"close", "accept"})
    /\ [][pc' # pc => <<pc, pc'>> \in LoopOrder]_vars
    /\ [][open' > open => pc = "accept" /\ open = 0]_vars
    /\ [][log' # log /\ log' \in {"Unable to read stream", "Unable to write response"}
          => pc' = "close"]_vars
    /\ [][pc = "close" => pc' = "accept" /\ open' = 0 /\ written' = 0]_vars
    /\ (pc = "close" /\ log \in {"Unable to read stream", "Unable to write response"})
           ~> (pc = "accept" /\ open = 0)

\* the loop is back at accept after a connection whose read failed, rows
\* from earlier connections being persisted
C10_Witness ==
    /\ pc = "accept"
    /\ open = 0
    /\ log = "Unable to read stream"
    /\ users # {}

====
